---- MODULE Spec2Model ----
(***************************************************************************)
(* A model of the proposal-generation backend (backend/app):               *)
(*   - ProposalGenerationService.process_request and the per-section and   *)
(*     per-attachment pipeline it drives (services/proposal_service.py);   *)
(*   - MaintenanceService, its periodic cleanup task and the maintenance   *)
(*     admin endpoints (services/maintenance_service.py,                   *)
(*     routers/maintenance.py, main.py).                                   *)
(* Python dicts are sequences of <<key, value>> pairs with distinct keys   *)
(* (insertion ordered); Python strings that the code inspects are          *)
(* sequences of characters; opaque texts are tagged tuples.                *)
(***************************************************************************)
EXTENDS Integers, Sequences, FiniteSets, TLC

VARIABLES
    \* ---- one generate-sections request (proposal_service.py) ----
    request,             \* the ProposalRequest being served
    bpc,                 \* position of process_request
    idx,                 \* position of the for loop over request.sections
    fidx,                \* position of the loop over attached_files
    uidx,                \* position of the loop over attached_urls
    summaries,           \* _process_attachments: the list being built
    attachment_summaries,\* _process_section: the list handed to the LLM
    resolved,            \* what each attachment of the current section met
    processed_sections,  \* process_request: the result dict being built
    overall_status,      \* process_request: the status being rolled up
    response,            \* what process_request returned or raised
    calls,               \* every collaborator invocation made so far
    \* ---- maintenance (maintenance_service.py, routers/maintenance.py,
    \*      main.py) ----
    now,                 \* time.time(), in hours
    store,               \* the upload directory: name -> entry
    config,              \* per MaintenanceService instance: its settings
    life,                \* position of main.lifespan
    task,                \* cleanup_task: the periodic cleanup coroutine
    sweep,               \* per instance: cleanup_old_files, its locals and
                         \* the statistics it returned last
    \* ---- a request-path read (file_service.py) ----
    reading,             \* FileService.get_file_content: position, id, result
    upload_dir           \* whether the upload directory itself exists

bvars == <<request, bpc, idx, fidx, uidx, summaries, attachment_summaries,
           resolved, processed_sections, overall_status, response, calls>>

mvars == <<now, store, config, life, task, sweep>>

fvars == <<reading, upload_dir>>

vars == <<bvars, mvars, fvars>>

-----------------------------------------------------------------------------
(* Bounds of the model *)

MaxSections == 2
MaxAttach == 3
MaxTime == 2

-----------------------------------------------------------------------------
(* Python helpers *)

Range(s) == {s[i] : i \in 1..Len(s)}

\* sequences over S without repetition, of length at most n
DistinctSeqs(S, n) ==
    {s \in UNION {[1..k -> S] : k \in 0..n} :
        \A i, j \in 1..Len(s) : i # j => s[i] # s[j]}

Whitespace == {" "}

RECURSIVE LStrip(_)
LStrip(s) ==
    IF s # <<>> /\ Head(s) \in Whitespace THEN LStrip(Tail(s)) ELSE s

RECURSIVE RStrip(_)
RStrip(s) ==
    IF s # <<>> /\ s[Len(s)] \in Whitespace
    THEN RStrip(SubSeq(s, 1, Len(s) - 1))
    ELSE s

\* str.strip()
Strip(s) == RStrip(LStrip(s))

\* Optional[List[str]]: None or a list
NoneValue == [none |-> TRUE, items |-> <<>>]
Some(l) == [none |-> FALSE, items |-> l]

\* `x or []`
OrEmpty(l) == IF l.none THEN <<>> ELSE l.items

\* `x and len(x) > 0`
NonEmptyList(l) == (~l.none) /\ l.items # <<>> /\ Len(l.items) > 0

\* dict views
DictKeys(d) == [i \in 1..Len(d) |-> d[i][1]]
DictHas(d, k) == \E i \in 1..Len(d) : d[i][1] = k
DictGet(d, k) == d[CHOOSE i \in 1..Len(d) : d[i][1] = k][2]

\* (variant: a new key is put first)
DictSetFront(d, k, v) ==
    IF DictHas(d, k)
    THEN [i \in 1..Len(d) |-> IF d[i][1] = k THEN <<k, v>> ELSE d[i]]
    ELSE <<<<k, v>>>> \o d

\* d[k] = v: an existing key keeps its place, a new key goes last
DictSet(d, k, v) ==
    IF DictHas(d, k)
    THEN [i \in 1..Len(d) |-> IF d[i][1] = k THEN <<k, v>> ELSE d[i]]
    ELSE Append(d, <<k, v>>)

-----------------------------------------------------------------------------
(* LLMService (services/llm_service.py) *)

SUPPORTED_MODELS ==
    {"gpt-4o-mini", "gpt-5-mini", "gpt-5",
     "claude-sonnet-4-20250514", "claude-3-7-sonnet-latest"}

\* (variant: the constructor checks nothing)
LLMServiceAcceptsAny(model_name) == TRUE

\* LLMService.__init__: the constructor raises ValueError for a model that
\* is not in the catalog
LLMServiceAccepts(model_name) == model_name \in SUPPORTED_MODELS

\* A prompt is the sequence of its blocks, <<heading, body>> each.  The
\* questions and the best-practice examples of a section play no part in
\* the control flow and are left as fixed bodies.
\* LLMService._create_human_prompt
CreateHumanPrompt(title, user_input) ==
    << <<"Abschnittstitel", title>>,
       <<"Leitfragen", "questions">>,
       <<"Benutzerinput", user_input>>,
       <<"Best-Practice-Beispiele", "examples">>,
       <<"Bitte erstelle", "">> >>

\* LLMService._create_human_prompt_with_attachments: the summaries are
\* numbered from 1 in the order of the list
CreateHumanPromptWithAttachments(title, user_input, digests) ==
    << <<"Abschnittstitel", title>>,
       <<"Leitfragen", "questions">>,
       <<"Benutzerinput", user_input>>,
       <<"Zusätzliche Details",
         [i \in 1..Len(digests) |->
             <<"Anhangszusammenfassung", i, digests[i]>>]>>,
       <<"Best-Practice-Beispiele", "examples">>,
       <<"Bitte erstelle", "">> >>

-----------------------------------------------------------------------------
(* Collaborators of the attachment pipeline *)

\* Texts are character sequences; <<"t", id>> is some readable text that
\* came from attachment id.
EmptyText == <<>>
TextOf(id) == <<"t", id>>
NoText == [none |-> TRUE, text |-> <<>>]
SomeText(t) == [none |-> FALSE, text |-> t]

\* What a stored file can be when it is read.
FileConds == {"missing", "unreadable", "whitespace", "text"}

\* FileService._extract_text_from_pdf: any failure is logged and "" returned
ExtractTextFromPdf(file_id, cond) ==
    CASE cond = "unreadable" -> EmptyText
      [] cond = "whitespace" -> <<" ">>
      [] OTHER               -> TextOf(file_id)

\* FileService.get_file_content: None when the file is not there
GetFileContent(file_id, cond) ==
    IF cond = "missing" THEN NoText
    ELSE SomeText(ExtractTextFromPdf(file_id, cond))

\* What fetching a URL can meet.
UrlConds == {"error", "blank", "text"}

\* WebScrapingService.extract_content_from_url: any failure is returned as
\* status "error" with empty content
ExtractContentFromUrl(url, cond) ==
    CASE cond = "error" -> [status |-> "error", content |-> EmptyText]
      [] cond = "blank" -> [status |-> "success", content |-> EmptyText]
      [] OTHER          -> [status |-> "success", content |-> TextOf(url)]

\* Outcome of a backend invocation of the LLM service (llm.invoke).
BackendOutcomes == {"ok", "fails"}

\* Outcome of the summarizer's use of its backend: the lazily built
\* client cannot be constructed (the llm property raises ValueError
\* without OPENAI_API_KEY), or self.llm.invoke fails, or it answers.
SummarizerOutcomes == {"ok", "no_api_key", "fails"}

SummarizerFailed(backend) == backend \in {"no_api_key", "fails"}

\* SummarizationService.DEFAULT_MODEL: the model of the one
\* SummarizationService() that ProposalGenerationService.__init__ creates
SummarizerModel == "gpt-4o-mini"

NoContentSentinel == <<"Kein verwertbarer Inhalt in der Anlage gefunden.", "">>

SummaryErrorText == <<"Fehler bei der Zusammenfassung", "e">>

\* (variant: the backend client is obtained before the content is looked
\* at)
SummarizeForQuestionsClientFirst(content, backend) ==
    IF backend # "ok" THEN SummaryErrorText
    ELSE IF Strip(content) = <<>> THEN NoContentSentinel
    ELSE <<"summary", content[2]>>

\* (variant: no try/except in summarize_for_questions; the exception of the
\* backend leaves it)
SummarizeForQuestionsUncaught(content, backend) ==
    IF Strip(content) = <<>> THEN NoContentSentinel
    ELSE IF backend = "ok" THEN <<"summary", content[2]>>
    ELSE <<"exception", "e">>

\* SummarizationService.summarize_for_questions: returns a string in every
\* case; a backend failure becomes a diagnostic string.  A digest is
\* <<text, ref>>, ref naming the attachment a genuine summary came from.
SummarizeForQuestions(content, backend) ==
    IF Strip(content) = <<>> THEN NoContentSentinel
    ELSE IF backend = "ok" THEN <<"summary", content[2]>>
    ELSE SummaryErrorText

\* whether summarize_for_questions reaches self.llm.invoke
SummarizerInvokesBackend(content) == Strip(content) # <<>>

FileErrorMarker == <<"Fehler beim Verarbeiten der Datei", "e">>
UrlErrorMarker == <<"Fehler beim Verarbeiten der URL", "e">>

-----------------------------------------------------------------------------
(* Requests *)

SectionKeys == {"intro", "plan"}
FileIds == {"f1", "f2"}
Urls == {"u1", "u2"}
UserInputs == {<<>>, <<" ">>, <<" ", "x", " ">>}
RequestModels == {"claude-sonnet-4-20250514", "gpt-3"}

OptLists(S) == {NoneValue} \cup {Some(l) : l \in DistinctSeqs(S, MaxAttach)}

NumAttached(sec) ==
    Len(OrEmpty(sec.attached_files)) + Len(OrEmpty(sec.attached_urls))

Sections ==
    {sec \in [title : {"Titel"}, user_input : UserInputs,
              attached_files : OptLists(FileIds),
              attached_urls : OptLists(Urls)] :
        NumAttached(sec) <= MaxAttach}

RECURSIVE TotalAttached(_)
TotalAttached(d) ==
    IF d = <<>> THEN 0 ELSE NumAttached(Head(d)[2]) + TotalAttached(Tail(d))

SectionDicts ==
    {d \in UNION {[1..n -> SectionKeys \X Sections] : n \in 0..MaxSections} :
        /\ \A i, j \in 1..Len(d) : i # j => d[i][1] # d[j][1]
        /\ TotalAttached(d) <= MaxAttach}

Requests == [model : RequestModels, sections : SectionDicts]

-----------------------------------------------------------------------------
(* ProposalGenerationService (services/proposal_service.py) *)

SectionResponse(title, generated_content, user_input, status) ==
    [title |-> title, generated_content |-> generated_content,
     user_input |-> user_input, status |-> status]

SkippedContent == <<"Keine Eingabe vom Benutzer bereitgestellt.">>
GeneratedContent(key) == <<"generated", key>>
GenerationErrorContent ==
    <<"Fehler bei der Generierung: ", "Failed to generate content: ", "e">>

\* (variant: the except branch forgets the submitted user_input)
ErrorResponseNoEcho(section) ==
    SectionResponse(section.title, GenerationErrorContent, <<>>, "error")

\* process_request, lines 76-81: the result written by the except branch
ErrorResponse(section) ==
    SectionResponse(section.title, GenerationErrorContent,
                    section.user_input, "error")

CurKey == request.sections[idx][1]
CurSection == request.sections[idx][2]

\* (variant: `if not section.user_input`)
NoUserInputUnstripped(section) == section.user_input = <<>>

\* `if not section.user_input.strip()`
NoUserInput(section) == Strip(section.user_input) = <<>>

\* (variant: `is not None` instead of truthiness and length)
HasAttachmentsNotNone(section) ==
    (~section.attached_files.none) \/ (~section.attached_urls.none)

\* the condition guarding _process_attachments in _process_section
HasAttachments(section) ==
    NonEmptyList(section.attached_files) \/ NonEmptyList(section.attached_urls)

\* (variant: summaries.insert(0, x))
PrependSummary(list, x) == <<x>> \o list

\* summaries.append(x)
AppendSummary(list, x) == Append(list, x)

\* process_request: the roll-up after a section ended with an exception
StatusAfterError(status) == "partial_success"

\* process_request: the roll-up after _process_section returned normally
\* (a skipped section returns normally)
StatusAfterReturn(status) == status

\* No request is being served.
BatchIdle ==
    /\ request = [model |-> "gpt-4o-mini", sections |-> <<>>]
    /\ bpc = "idle"
    /\ idx = 0
    /\ fidx = 0
    /\ uidx = 0
    /\ summaries = <<>>
    /\ attachment_summaries = <<>>
    /\ resolved = <<>>
    /\ processed_sections = <<>>
    /\ overall_status = "none"
    /\ response = [kind |-> "none"]
    /\ calls = <<>>

BatchInit ==
    /\ request \in Requests
    /\ bpc = "received"
    /\ idx = 0
    /\ fidx = 0
    /\ uidx = 0
    /\ summaries = <<>>
    /\ attachment_summaries = <<>>
    /\ resolved = <<>>
    /\ processed_sections = <<>>
    /\ overall_status = "none"
    /\ response = [kind |-> "none"]
    /\ calls = <<>>

\* The for loop moves on; after the last section process_request returns
\* ProposalResponse(sections=processed_sections, status=overall_status).
NextSection(newProcessed, newStatus, newIdx) ==
    /\ processed_sections' = newProcessed
    /\ overall_status' = newStatus
    /\ idx' = newIdx
    /\ IF newIdx > Len(request.sections)
       THEN /\ bpc' = "responded"
            /\ response' = [kind |-> "ProposalResponse",
                            sections |-> newProcessed, status |-> newStatus]
       ELSE /\ bpc' = "sections"
            /\ response' = response

\* process_request, lines 59-65: LLMService(model_name=request.model) is
\* constructed before the loop; its ValueError leaves process_request.
ProcessRequest ==
    /\ UNCHANGED <<mvars, fvars>>
    /\ bpc = "received"
    /\ IF LLMServiceAccepts(request.model)
       THEN /\ NextSection(<<>>, "success", 1)
       ELSE /\ bpc' = "rejected"
            /\ response' = [kind |-> "ValueError"]
            /\ UNCHANGED <<processed_sections, overall_status, idx>>
    /\ UNCHANGED <<request, fidx, uidx, summaries, attachment_summaries,
                   resolved, calls>>

\* _process_section, lines 101-123, up to its first call of a collaborator.
StartSection ==
    /\ UNCHANGED <<mvars, fvars>>
    /\ bpc = "sections"
    /\ idx <= Len(request.sections)
    /\ resolved' = <<>>
    /\ summaries' = <<>>
    /\ attachment_summaries' = <<>>
    /\ fidx' = 1
    /\ uidx' = 1
    /\ IF NoUserInput(CurSection)
       THEN NextSection(
                DictSet(processed_sections, CurKey,
                        SectionResponse(CurSection.title, SkippedContent,
                                        CurSection.user_input, "skipped")),
                StatusAfterReturn(overall_status), idx + 1)
       ELSE /\ bpc' = IF HasAttachments(CurSection)
                      THEN "attachments" ELSE "generate"
            /\ UNCHANGED <<processed_sections, overall_status, idx, response>>
    /\ UNCHANGED <<request, calls>>

\* (variant: _process_attachments returns after the file loop)
AfterAttachmentFilesOnly(newSummaries, newF, newU) ==
    /\ summaries' = newSummaries
    /\ fidx' = newF
    /\ uidx' = newU
    /\ IF newF > Len(OrEmpty(CurSection.attached_files))
       THEN /\ bpc' = "generate"
            /\ attachment_summaries' = newSummaries
       ELSE /\ bpc' = "attachments"
            /\ attachment_summaries' = attachment_summaries
    /\ UNCHANGED <<idx, processed_sections, overall_status, response>>

\* _process_attachments returns its list once both loops are through.
AfterAttachment(newSummaries, newF, newU) ==
    /\ summaries' = newSummaries
    /\ fidx' = newF
    /\ uidx' = newU
    /\ IF /\ newF > Len(OrEmpty(CurSection.attached_files))
          /\ newU > Len(OrEmpty(CurSection.attached_urls))
       THEN /\ bpc' = "generate"
            /\ attachment_summaries' = newSummaries
       ELSE /\ bpc' = "attachments"
            /\ attachment_summaries' = attachment_summaries
    /\ UNCHANGED <<idx, processed_sections, overall_status, response>>

\* (variant: no try/except around the file; the exception leaves
\* _process_attachments and reaches the handler of process_request)
FileRaisedEscapes(file_id) ==
    /\ resolved' = Append(resolved,
           [kind |-> "file", index |-> fidx, cond |-> "raises",
            backend |-> "none", digest |-> <<>>])
    /\ calls' = Append(calls, <<"get_file_content", CurKey, file_id>>)
    /\ UNCHANGED <<summaries, attachment_summaries, fidx, uidx>>
    /\ NextSection(DictSet(processed_sections, CurKey,
                           ErrorResponse(CurSection)),
                   StatusAfterError(overall_status), idx + 1)

\* lines 185-187: an exception while a file is processed becomes a marker
FileRaised(file_id) ==
    /\ resolved' = Append(resolved,
           [kind |-> "file", index |-> fidx, cond |-> "raises",
            backend |-> "none", digest |-> <<FileErrorMarker>>])
    /\ calls' = Append(calls, <<"get_file_content", CurKey, file_id>>)
    /\ AfterAttachment(AppendSummary(summaries, FileErrorMarker),
                       fidx + 1, uidx)

\* lines 206-208: an exception while a URL is processed becomes a marker
UrlRaised(url) ==
    /\ resolved' = Append(resolved,
           [kind |-> "url", index |-> uidx, cond |-> "raises",
            backend |-> "none", digest |-> <<UrlErrorMarker>>])
    /\ calls' = Append(calls, <<"extract_content_from_url", CurKey, url>>)
    /\ AfterAttachment(AppendSummary(summaries, UrlErrorMarker),
                       fidx, uidx + 1)

\* (variant: `if file_content is not None`)
FileContentPresentNotNone(file_content) == ~file_content.none

\* _process_attachments, line 174: `if file_content`
FileContentPresent(file_content) ==
    (~file_content.none) /\ file_content.text # <<>>

\* _process_attachments, line 196:
\* `if url_result["status"] == "success" and url_result["content"]`
UrlContentPresent(url_result) ==
    url_result.status = "success" /\ url_result.content # <<>>

\* _process_attachments, lines 170-187: one pass of the file loop.
ProcessFile ==
    /\ UNCHANGED <<mvars, fvars>>
    /\ bpc = "attachments"
    /\ fidx <= Len(OrEmpty(CurSection.attached_files))
    /\ LET file_id == OrEmpty(CurSection.attached_files)[fidx]
           read == <<"get_file_content", CurKey, file_id>>
           sum == <<"summarize_for_questions", CurKey, file_id>>
       IN
       \/ FileRaised(file_id)
       \/ \E cond \in FileConds, backend \in SummarizerOutcomes :
            LET file_content == GetFileContent(file_id, cond) IN
            IF FileContentPresent(file_content)
            THEN LET summary ==
                         SummarizeForQuestions(file_content.text, backend)
                 IN /\ resolved' = Append(resolved,
                           [kind |-> "file", index |-> fidx, cond |-> cond,
                            backend |->
                              IF SummarizerInvokesBackend(file_content.text)
                              THEN backend ELSE "none",
                            digest |-> <<summary>>])
                    /\ calls' = calls \o <<read, sum>>
                    /\ AfterAttachment(AppendSummary(summaries, summary),
                                       fidx + 1, uidx)
            ELSE /\ resolved' = Append(resolved,
                        [kind |-> "file", index |-> fidx, cond |-> cond,
                         backend |-> "none", digest |-> <<>>])
                 /\ calls' = Append(calls, read)
                 /\ AfterAttachment(summaries, fidx + 1, uidx)
    /\ UNCHANGED request

\* _process_attachments, lines 190-208: one pass of the URL loop.
ProcessUrl ==
    /\ UNCHANGED <<mvars, fvars>>
    /\ bpc = "attachments"
    /\ fidx > Len(OrEmpty(CurSection.attached_files))
    /\ uidx <= Len(OrEmpty(CurSection.attached_urls))
    /\ LET url == OrEmpty(CurSection.attached_urls)[uidx]
           fetch == <<"extract_content_from_url", CurKey, url>>
           sum == <<"summarize_for_questions", CurKey, url>>
       IN
       \/ UrlRaised(url)
       \/ \E cond \in UrlConds, backend \in SummarizerOutcomes :
            LET url_result == ExtractContentFromUrl(url, cond) IN
            IF UrlContentPresent(url_result)
            THEN LET summary ==
                         SummarizeForQuestions(url_result.content, backend)
                 IN /\ resolved' = Append(resolved,
                           [kind |-> "url", index |-> uidx, cond |-> cond,
                            backend |->
                              IF SummarizerInvokesBackend(url_result.content)
                              THEN backend ELSE "none",
                            digest |-> <<summary>>])
                    /\ calls' = calls \o <<fetch, sum>>
                    /\ AfterAttachment(AppendSummary(summaries, summary),
                                       fidx, uidx + 1)
            ELSE /\ resolved' = Append(resolved,
                        [kind |-> "url", index |-> uidx, cond |-> cond,
                         backend |-> "none", digest |-> <<>>])
                 /\ calls' = Append(calls, fetch)
                 /\ AfterAttachment(summaries, fidx, uidx + 1)
    /\ UNCHANGED request

\* (variant: the prompt with attachments is used for every section)
HumanPromptAlwaysDetails(section, digests) ==
    CreateHumanPromptWithAttachments(section.title, section.user_input,
                                     digests)

\* _process_section, lines 126-144: `if attachment_summaries:` chooses
\* between generate_section_content_with_attachments and
\* generate_section_content, and with it the human prompt
HumanPrompt(section, digests) ==
    IF digests # <<>>
    THEN CreateHumanPromptWithAttachments(section.title, section.user_input,
                                          digests)
    ELSE CreateHumanPrompt(section.title, section.user_input)

\* _process_section, lines 125-153, and the handler of process_request,
\* lines 73-82: the LLM call and the section's result.
Generate ==
    /\ UNCHANGED <<mvars, fvars>>
    /\ bpc = "generate"
    /\ LET op == IF attachment_summaries # <<>>
                 THEN "generate_section_content_with_attachments"
                 ELSE "generate_section_content"
       IN \E llm \in BackendOutcomes :
            /\ calls' = Append(calls,
                   <<op, CurKey, llm,
                     HumanPrompt(CurSection, attachment_summaries)>>)
            /\ IF llm = "ok"
               THEN NextSection(
                        DictSet(processed_sections, CurKey,
                                SectionResponse(CurSection.title,
                                                GeneratedContent(CurKey),
                                                CurSection.user_input,
                                                "success")),
                        StatusAfterReturn(overall_status), idx + 1)
               ELSE NextSection(
                        DictSet(processed_sections, CurKey,
                                ErrorResponse(CurSection)),
                        StatusAfterError(overall_status), idx + 1)
    /\ UNCHANGED <<request, fidx, uidx, summaries, attachment_summaries,
                   resolved>>

BatchNext ==
    \/ ProcessRequest
    \/ StartSection
    \/ ProcessFile
    \/ ProcessUrl
    \/ Generate

-----------------------------------------------------------------------------
(* MaintenanceService (services/maintenance_service.py) *)

\* The two module-level instances: main.py line 25 (driven by the
\* background task) and routers/maintenance.py line 17 (driven by the
\* admin endpoints).
Instances == {"main", "router"}

DefaultRetentionHours == 24
DefaultIntervalHours == 1

\* MaintenanceService.__init__
NewService ==
    [file_retention_hours |-> DefaultRetentionHours,
     cleanup_interval_hours |-> DefaultIntervalHours]

\* Optional[int]
NoneInt == [none |-> TRUE, val |-> 0]
SomeInt(v) == [none |-> FALSE, val |-> v]

\* Entries of the upload directory.
Names == {"a.pdf", "b.pdf", "sub"}
FileNames == {"a.pdf", "b.pdf"}
Size(name) == IF name = "a.pdf" THEN 3 ELSE 5
Absent == [kind |-> "absent", mtime |-> 0, size |-> 0]
File(name, mtime) == [kind |-> "file", mtime |-> mtime, size |-> Size(name)]
Dir == [kind |-> "dir", mtime |-> 0, size |-> 0]
InitMtimes == {0 - 25, 0 - 24}

Stores ==
    {st \in [Names -> {Absent, Dir} \cup
                      {File(n, m) : n \in FileNames, m \in InitMtimes}] :
        /\ \A n \in FileNames :
              st[n].kind \in {"absent", "file"} /\ st[n].size \in {0, Size(n)}
        /\ st["sub"].kind \in {"absent", "dir"}}

\* os.listdir: the names present, in an order the file system chooses
Listings(st) ==
    LET present == {n \in Names : st[n].kind # "absent"}
    IN {l \in [1..Cardinality(present) -> present] :
           \A i, j \in 1..Len(l) : i # j => l[i] # l[j]}

IdleSweep ==
    [phase |-> "idle", cutoff_time |-> 0, todo |-> <<>>, deleted_files |-> 0,
     errors |-> 0, total_size_freed |-> 0, retention_hours |-> 0]

NoTask ==
    [pc |-> "none", must_cancel |-> FALSE, slept_at |-> 0,
     interval_used |-> 0, cancel_at |-> "none", logged_error |-> FALSE]

\* the time at which the asyncio.sleep in progress is due
WakeAt == task.slept_at + task.interval_used

MaintIdle ==
    /\ now = 0
    /\ store \in {[n \in Names |-> Absent]}
    /\ config = [i \in Instances |-> NewService]
    /\ life = "down"
    /\ task = NoTask
    /\ sweep = [i \in Instances |-> IdleSweep]

MaintInit ==
    /\ now = 0
    /\ store \in Stores
    /\ config = [i \in Instances |-> NewService]
    /\ life = "down"
    /\ task = NoTask
    /\ sweep = [i \in Instances |-> IdleSweep]

\* time passes
Tick ==
    /\ UNCHANGED <<bvars, fvars>>
    /\ now < MaxTime
    /\ now' = now + 1
    /\ UNCHANGED <<store, config, life, task, sweep>>

\* main.lifespan, lines 39-50: asyncio.create_task(start_periodic_cleanup())
Startup ==
    /\ UNCHANGED <<bvars, fvars>>
    /\ life = "down"
    /\ life' = "up"
    /\ task' = [NoTask EXCEPT !.pc = "created"]
    /\ UNCHANGED <<now, store, config, sweep>>

\* start_periodic_cleanup, lines 175-179: `await asyncio.sleep(
\* self.cleanup_interval_hours * 3600)` on the instance of main.py
EnterSleep(t) ==
    [t EXCEPT !.pc = "sleeping",
              !.slept_at = now,
              !.interval_used = config["main"].cleanup_interval_hours]

\* (variant: the loop body sweeps first and sleeps afterwards)
TaskBeginSweepsFirst ==
    /\ UNCHANGED <<bvars, fvars>>
    /\ task.pc = "created"
    /\ ~task.must_cancel
    /\ \/ /\ store = [n \in Names |-> Absent]
          /\ task' = EnterSleep(task)
          /\ UNCHANGED sweep
       \/ /\ store # [n \in Names |-> Absent]
          /\ \E listing \in Listings(store) :
                sweep' = [sweep EXCEPT !["main"] =
                    [IdleSweep EXCEPT !.phase = "running",
                                      !.cutoff_time = now - 24,
                                      !.retention_hours = 24,
                                      !.todo = listing]]
          /\ task' = [task EXCEPT !.pc = "sweeping"]
    /\ UNCHANGED <<now, store, config, life>>

\* start_periodic_cleanup, lines 170-179: the task runs for the first time
TaskBegin ==
    /\ UNCHANGED <<bvars, fvars>>
    /\ task.pc = "created"
    /\ ~task.must_cancel
    /\ task' = EnterSleep(task)
    /\ UNCHANGED <<now, store, config, life, sweep>>

\* cleanup_old_files, lines 96-109: the statistics are returned.
\* trigger_cleanup hands them to its caller (routers/maintenance.py, lines
\* 32-37); start_periodic_cleanup drops them (line 180).
ReturnStats(i, sw) ==
    sweep' = [sweep EXCEPT ![i] =
                 IF i = "router"
                 THEN [IdleSweep EXCEPT
                          !.phase = "returned",
                          !.deleted_files = sw.deleted_files,
                          !.errors = sw.errors,
                          !.total_size_freed = sw.total_size_freed,
                          !.retention_hours = sw.retention_hours]
                 ELSE IdleSweep]

\* (variant: a cancellation requested during the sweep is swallowed, as by
\* a handler that catches it inside cleanup_old_files)
AfterSweepSwallowsCancel(i) ==
    IF i = "main"
    THEN task' = EnterSleep([task EXCEPT !.must_cancel = FALSE])
    ELSE task' = task

\* whoever awaited cleanup_old_files of instance i goes on: the periodic
\* task loops back to its asyncio.sleep (lines 175-180)
AfterSweep(i) ==
    IF i = "main"
    THEN task' = EnterSleep(task)
    ELSE task' = task

\* cleanup_old_files, lines 48-62: the directory check, the cutoff and
\* os.listdir
FreshSweep(t, retention_hours) ==
    [IdleSweep EXCEPT !.phase = "running",
                      !.cutoff_time = t - retention_hours,
                      !.retention_hours = retention_hours]

\* (variant: no check of the directory; os.listdir raises and the handler
\* of lines 92-94 counts an error)
ZeroedStatsAsError == [IdleSweep EXCEPT !.errors = 1]

\* cleanup_old_files, line 54: {"deleted_files": 0, "errors": 0,
\* "total_size_freed": 0}, with no retention_hours
ZeroedStats == IdleSweep

BeginSweep(i) ==
    IF upload_dir = "missing"
    THEN \* lines 50-54: `if not os.path.exists(self.upload_directory)`
         /\ ReturnStats(i, ZeroedStats)
         /\ AfterSweep(i)
    ELSE
    LET fresh == FreshSweep(now, config[i].file_retention_hours)
    IN \/ \E listing \in Listings(store) :
            IF listing = <<>>
            THEN /\ ReturnStats(i, fresh)
                 /\ AfterSweep(i)
            ELSE /\ sweep' = [sweep EXCEPT ![i] =
                                 [fresh EXCEPT !.todo = listing]]
                 /\ IF i = "main"
                    THEN task' = [task EXCEPT !.pc = "sweeping"]
                    ELSE task' = task
       \/ \* os.listdir raises: lines 92-94
          /\ ReturnStats(i, [fresh EXCEPT !.errors = 1])
          /\ AfterSweep(i)

\* start_periodic_cleanup, lines 177-180: asyncio.sleep is over and
\* cleanup_old_files is called.  A cancellation requested meanwhile is
\* raised by the await instead.
Wake ==
    /\ UNCHANGED <<bvars, fvars>>
    /\ task.pc = "sleeping"
    /\ ~task.must_cancel
    /\ now >= WakeAt
    /\ BeginSweep("main")
    /\ UNCHANGED <<now, store, config, life>>

\* (variant: the entry stays where it is)
OsRemoveNothing(st, name) == st

\* os.remove: the entry is gone
OsRemove(st, name) == [st EXCEPT ![name] = Absent]

\* (variant: the size of a deleted file is not added up)
CountDeletedNoSize(sw, entry) ==
    [sw EXCEPT !.todo = Tail(sw.todo), !.deleted_files = @ + 1]

\* cleanup_old_files, lines 76-78: os.remove went through
CountDeleted(sw, entry) ==
    [sw EXCEPT !.todo = Tail(sw.todo),
               !.deleted_files = @ + 1,
               !.total_size_freed = @ + entry.size]

\* (variant: no try/except around the entry; the OSError reaches the outer
\* handler of lines 92-94 and ends the loop over the listing)
OnOSErrorAbort(sw) == [sw EXCEPT !.todo = <<>>, !.errors = @ + 1]

\* cleanup_old_files, lines 88-90: the OSError of one entry is counted and
\* the loop goes on with the next entry
OnOSError(sw) == [sw EXCEPT !.todo = Tail(sw.todo), !.errors = @ + 1]

\* (variant: `file_age <= cutoff_time`)
OldEnoughInclusive(entry, cutoff_time) == entry.mtime <= cutoff_time

\* cleanup_old_files, line 75: `if file_age < cutoff_time`
OldEnough(entry, cutoff_time) == entry.mtime < cutoff_time

\* cleanup_old_files, lines 62-90: one entry of the listing.
SweepEntry(i) ==
    /\ UNCHANGED <<bvars, fvars>>
    /\ sweep[i].phase = "running"
    /\ sweep[i].todo # <<>>
    /\ LET sw == sweep[i]
           filename == Head(sw.todo)
           entry == store[filename]
           rest == [sw EXCEPT !.todo = Tail(sw.todo)]
           Done(after, st) ==
               /\ store' = st
               /\ IF after.todo = <<>>
                  THEN /\ ReturnStats(i, after)
                       /\ AfterSweep(i)
                  ELSE /\ sweep' = [sweep EXCEPT ![i] = after]
                       /\ UNCHANGED task
       IN \/ \* os.path.isdir: skipped
             /\ entry.kind = "dir"
             /\ Done(rest, store)
          \/ \* os.stat, and os.remove when the file is old enough
             /\ entry.kind = "file"
             /\ IF OldEnough(entry, sw.cutoff_time)
                THEN Done(CountDeleted(sw, entry),
                          OsRemove(store, filename))
                ELSE Done(rest, store)
          \/ \* OSError (the entry is gone, or the file system fails)
             /\ entry.kind # "dir"
             /\ Done(OnOSError(sw), store)
    /\ UNCHANGED <<now, config, life>>

\* (variant: `except asyncio.CancelledError: pass`, the loop goes on)
TaskCancelledContinues ==
    /\ UNCHANGED <<bvars, fvars>>
    /\ task.pc = "sleeping"
    /\ task.must_cancel
    /\ task' = EnterSleep([task EXCEPT !.must_cancel = FALSE])
    /\ UNCHANGED <<now, store, config, life, sweep>>

\* start_periodic_cleanup, lines 182-184: CancelledError is raised by the
\* await of asyncio.sleep; the loop is left.
TaskCancelled ==
    /\ UNCHANGED <<bvars, fvars>>
    /\ task.pc = "sleeping"
    /\ task.must_cancel
    /\ task' = [task EXCEPT !.pc = "cancelled", !.must_cancel = FALSE]
    /\ UNCHANGED <<now, store, config, life, sweep>>

\* (variant: no `except Exception` in the loop; the exception ends the task)
OnUnexpectedErrorFatal(t) ==
    [t EXCEPT !.pc = "failed", !.logged_error = TRUE]

\* start_periodic_cleanup, lines 185-187: the error is logged and the
\* while loop goes round to its asyncio.sleep
OnUnexpectedError(t) == EnterSleep([t EXCEPT !.logged_error = TRUE])

\* start_periodic_cleanup, lines 180-187: an exception other than
\* CancelledError leaves cleanup_old_files while the task sweeps
CycleRaises ==
    /\ UNCHANGED <<bvars, fvars>>
    /\ task.pc = "sweeping"
    /\ sweep' = [sweep EXCEPT !["main"] = IdleSweep]
    /\ task' = OnUnexpectedError(task)
    /\ UNCHANGED <<now, store, config, life>>

\* The event loop runs the task created at startup before it resumes
\* lifespan or serves a request.
Serving == life = "up" /\ task.pc # "created"

\* main.lifespan, lines 55-58: shutdown is requested and
\* cleanup_task.cancel() is issued.  cleanup_old_files has no await, so a
\* request that arrives during a sweep is served once the sweep has returned
\* and the task waits in asyncio.sleep again: the request is recorded on
\* the task and raised at the task's next await.
Shutdown ==
    /\ UNCHANGED <<bvars, fvars>>
    /\ Serving
    /\ life' = "stopping"
    /\ task' = IF task.pc \in {"sleeping", "sweeping"}
               THEN [task EXCEPT !.must_cancel = TRUE, !.cancel_at = task.pc]
               ELSE task
    /\ UNCHANGED <<now, store, config, sweep>>

\* main.lifespan, lines 59-62: `await cleanup_task` returns
ShutdownDone ==
    /\ UNCHANGED <<bvars, fvars>>
    /\ life = "stopping"
    /\ task.pc = "cancelled"
    /\ life' = "stopped"
    /\ UNCHANGED <<now, store, config, task, sweep>>

\* cleanup_old_files, lines 61-94, run from the listing to the return
\* with nothing else touching the directory; the entries in `fails` are
\* those whose os.stat or os.remove raises OSError.
RECURSIVE RunEntries(_, _, _)
RunEntries(sw, st, fails) ==
    IF sw.todo = <<>>
    THEN [stats |-> sw, store |-> st]
    ELSE LET filename == Head(sw.todo)
             entry == st[filename]
         IN IF entry.kind = "dir"
            THEN RunEntries([sw EXCEPT !.todo = Tail(sw.todo)], st, fails)
            ELSE IF filename \in fails \/ entry.kind = "absent"
            THEN RunEntries(OnOSError(sw), st, fails)
            ELSE IF OldEnough(entry, sw.cutoff_time)
            THEN RunEntries(CountDeleted(sw, entry),
                            OsRemove(st, filename), fails)
            ELSE RunEntries([sw EXCEPT !.todo = Tail(sw.todo)], st, fails)

\* cleanup_old_files as a function of the directory, the clock, the
\* retention, the order of os.listdir and the failing entries
CleanupOldFiles(st, t, retention_hours, listing, fails) ==
    RunEntries([FreshSweep(t, retention_hours) EXCEPT !.todo = listing],
               st, fails)

-----------------------------------------------------------------------------
(* Maintenance admin endpoints (routers/maintenance.py) *)

\* MaintenanceService.configure_retention
ConfigureRetention(svc, retention_hours, cleanup_interval_hours) ==
    [file_retention_hours |-> retention_hours,
     cleanup_interval_hours |->
         IF cleanup_interval_hours.none
         THEN svc.cleanup_interval_hours
         ELSE cleanup_interval_hours.val]

\* (variant: only retention_hours is validated)
PutRejectedRetentionOnly(retention_hours, cleanup_interval_hours) ==
    (~retention_hours.none) /\ retention_hours.val < 1

\* update_maintenance_config, lines 97-108: the bounds (0.1 hours: tenths)
PutRejected(retention_hours, cleanup_interval_hours) ==
    \/ (~retention_hours.none) /\ retention_hours.val < 1
    \/ (~cleanup_interval_hours.none) /\ cleanup_interval_hours.val * 10 < 1

PutValues == {NoneInt, SomeInt(0), SomeInt(2)}

\* update_maintenance_config, lines 96-114, for one pair of query
\* parameters: validation, then configure_retention
PutConfig(retention_hours, cleanup_interval_hours) ==
    IF PutRejected(retention_hours, cleanup_interval_hours)
    THEN \* HTTPException(status_code=400)
         UNCHANGED config
    ELSE config' = [config EXCEPT !["router"] =
             ConfigureRetention(
                 config["router"],
                 IF retention_hours.none \/ retention_hours.val = 0
                 THEN config["router"].file_retention_hours
                 ELSE retention_hours.val,
                 cleanup_interval_hours)]

\* update_maintenance_config (PUT /config), on the instance of the router
UpdateMaintenanceConfig ==
    /\ UNCHANGED <<bvars, fvars>>
    /\ Serving
    /\ \E retention_hours \in PutValues, cleanup_interval_hours \in PutValues :
          PutConfig(retention_hours, cleanup_interval_hours)
    /\ UNCHANGED <<now, store, life, task, sweep>>

\* trigger_cleanup (POST /cleanup): cleanup_old_files of the router's
\* instance
TriggerCleanup ==
    /\ UNCHANGED <<bvars, fvars>>
    /\ Serving
    /\ sweep["router"].phase # "running"
    /\ BeginSweep("router")
    /\ UNCHANGED <<now, store, config, life>>

\* The upload directory is removed from outside the application (nothing
\* in the application removes it, and only FileService.__init__ creates it).
UploadDirRemoved ==
    /\ UNCHANGED <<bvars, reading>>
    /\ upload_dir = "present"
    /\ upload_dir' = "missing"
    /\ store' = [n \in Names |-> Absent]
    /\ UNCHANGED <<now, config, life, task, sweep>>

MaintNext ==
    \/ Tick
    \/ Startup
    \/ TaskBegin
    \/ Wake
    \/ \E i \in Instances : SweepEntry(i)
    \/ TaskCancelled
    \/ Shutdown
    \/ ShutdownDone
    \/ UpdateMaintenanceConfig
    \/ TriggerCleanup

-----------------------------------------------------------------------------
(* FileService (services/file_service.py): reads and deletes by file id *)

\* The upload directory is shared by every process that serves the
\* application, and nothing locks it: the file-system calls of a read, of
\* an explicit delete and of a sweep interleave.

\* The ids of the stored files.
StoredIds == {"a", "b"}

\* FileService._get_file_path: upload_directory/<file_id>.pdf
GetFilePath(file_id) == IF file_id = "a" THEN "a.pdf" ELSE "b.pdf"

\* os.path.exists
PathExists(name) == store[name].kind # "absent"

NoRead == [pc |-> "idle", file_id |-> "", content |-> NoText]

\* FileService.__init__, line 39: os.makedirs(upload_directory,
\* exist_ok=True) has run when the routers were imported
ReadIdle == reading = NoRead /\ upload_dir = "present"

\* get_file_content returns
ReadReturns(file_id, content) ==
    reading' = [pc |-> "returned", file_id |-> file_id, content |-> content]

\* get_file_content, line 103: _get_file_path looks for the file
\* (os.path.exists, lines 192-196)
ReadBegin ==
    /\ UNCHANGED <<bvars, mvars, upload_dir>>
    /\ Serving
    /\ reading.pc \in {"idle", "returned"}
    /\ \E file_id \in StoredIds :
          IF PathExists(GetFilePath(file_id))
          THEN reading' = [pc |-> "found", file_id |-> file_id,
                           content |-> NoText]
          ELSE ReadReturns(file_id, NoText)

\* get_file_content, line 104: `if file_path and os.path.exists(file_path)`
ReadRecheck ==
    /\ UNCHANGED <<bvars, mvars, upload_dir>>
    /\ reading.pc = "found"
    /\ IF PathExists(GetFilePath(reading.file_id))
       THEN reading' = [reading EXCEPT !.pc = "exists"]
       ELSE ReadReturns(reading.file_id, NoText)

\* get_file_content, line 105: _extract_text_from_pdf opens and reads the
\* file.  open() of a file that is gone raises; the handler of lines
\* 178-180 returns "".  A file that was opened is read whole.
OpenedContent(file_id) ==
    SomeText(ExtractTextFromPdf(file_id,
                 IF PathExists(GetFilePath(file_id))
                 THEN "text" ELSE "unreadable"))

ReadExtract ==
    /\ UNCHANGED <<bvars, mvars, upload_dir>>
    /\ reading.pc = "exists"
    /\ ReadReturns(reading.file_id, OpenedContent(reading.file_id))

\* FileService.delete_file (DELETE /files/{file_id}), lines 118-127
DeleteFile(file_id) ==
    /\ UNCHANGED <<bvars, fvars>>
    /\ Serving
    /\ IF PathExists(GetFilePath(file_id))
       THEN \/ store' = OsRemove(store, GetFilePath(file_id))
            \/ \* os.remove raises: lines 124-126
               UNCHANGED store
       ELSE UNCHANGED store
    /\ UNCHANGED <<now, config, life, task, sweep>>

\* Stored files of every age around the retention window.
FileMtimes == {0 - 25, 0 - 24, 0 - 23}

FileStores ==
    {st \in [Names -> {Absent, Dir} \cup
                      {File(n, m) : n \in FileNames, m \in FileMtimes}] :
        /\ \A n \in FileNames :
              st[n].kind \in {"absent", "file"} /\ st[n].size \in {0, Size(n)}
        /\ st["sub"].kind \in {"absent", "dir"}}

FileInit ==
    /\ now = 0
    /\ store \in FileStores
    /\ config = [i \in Instances |-> NewService]
    /\ life = "down"
    /\ task = NoTask
    /\ sweep = [i \in Instances |-> IdleSweep]

\* the maintenance service while the upload directory may disappear
DirNext ==
    \/ Tick
    \/ Startup
    \/ TaskBegin
    \/ Wake
    \/ \E i \in Instances : SweepEntry(i)
    \/ TaskCancelled
    \/ Shutdown
    \/ ShutdownDone
    \/ UpdateMaintenanceConfig
    \/ TriggerCleanup
    \/ UploadDirRemoved

\* sweeps of both instances, reconfiguration and explicit deletes
SweepNext ==
    \/ Tick
    \/ Startup
    \/ TaskBegin
    \/ Wake
    \/ \E i \in Instances : SweepEntry(i)
    \/ UpdateMaintenanceConfig
    \/ TriggerCleanup
    \/ \E file_id \in StoredIds : DeleteFile(file_id)

\* reads by id while sweeps and explicit deletes go on
ReadNext ==
    \/ Tick
    \/ Startup
    \/ TaskBegin
    \/ Wake
    \/ \E i \in Instances : SweepEntry(i)
    \/ TriggerCleanup
    \/ \E file_id \in StoredIds : DeleteFile(file_id)
    \/ ReadBegin
    \/ ReadRecheck
    \/ ReadExtract

\* the maintenance loop with sweep cycles that fail unexpectedly
FaultNext ==
    \/ Tick
    \/ Startup
    \/ TaskBegin
    \/ Wake
    \/ \E i \in Instances : SweepEntry(i)
    \/ CycleRaises
    \/ TaskCancelled
    \/ Shutdown
    \/ ShutdownDone
    \/ UpdateMaintenanceConfig
    \/ TriggerCleanup

-----------------------------------------------------------------------------
(* Specifications *)

\* one generate-sections request
BatchSpecInit == BatchInit /\ MaintIdle /\ ReadIdle
BatchSpec == BatchSpecInit /\ [][BatchNext]_vars

\* the maintenance loop and the admin endpoints
MaintSpecInit == BatchIdle /\ MaintInit /\ ReadIdle
MaintSpec == MaintSpecInit /\ [][MaintNext]_vars

\* the event loop runs a task that is ready to run
TaskStep == TaskBegin \/ TaskCancelled \/ SweepEntry("main")

MaintFairSpec == MaintSpec /\ WF_vars(TaskStep)

FaultSpec == MaintSpecInit /\ [][FaultNext]_vars
DirSpec == MaintSpecInit /\ [][DirNext]_vars

\* the upload directory under sweeps, reads and deletes
FileSpecInit == BatchIdle /\ FileInit /\ ReadIdle
SweepSpec == FileSpecInit /\ [][SweepNext]_vars
ReadSpec == FileSpecInit /\ [][ReadNext]_vars

-----------------------------------------------------------------------------
(* Properties of process_request *)

\* empty or whitespace-only
IsBlank(s) == \A i \in 1..Len(s) : s[i] \in Whitespace

GenerateOps ==
    {"generate_section_content", "generate_section_content_with_attachments"}

GenerateCalls(key) ==
    {i \in 1..Len(calls) : calls[i][1] \in GenerateOps /\ calls[i][2] = key}

GenerationFailed(key) == \E i \in GenerateCalls(key) : calls[i][3] = "fails"

\* C1: the returned BatchResult.status is success if and only if every
\* contained SectionResult has status success (a skipped or error section
\* forces partial_success).
C1_StatusSuccessIffAllSuccess ==
    bpc = "responded" =>
        ( response.status = "success"
          <=> \A i \in 1..Len(response.sections) :
                  response.sections[i][2].status = "success" )

\* C2: for a batch with a supported model the keys of output.sections are
\* the keys of input.sections, in the same order, whatever the outcomes.
C2_KeysMirrorInput ==
    bpc = "responded" =>
        DictKeys(response.sections) = DictKeys(request.sections)

C2_Witness ==
    /\ bpc = "responded"
    /\ Len(response.sections) = 2
    /\ response.sections[1][2].status = "error"
    /\ response.sections[2][2].status = "skipped"

\* C3: a section whose user_input is empty or whitespace-only yields status
\* skipped whatever is attached; a section with non-blank user_input never
\* yields skipped.
C3_SkippedIffBlank ==
    \A i \in 1..Len(processed_sections) :
        LET key == processed_sections[i][1]
            section == DictGet(request.sections, key)
        IN processed_sections[i][2].status = "skipped"
               <=> IsBlank(section.user_input)

C3_Witness ==
    \E i \in 1..Len(processed_sections) :
        LET section == DictGet(request.sections, processed_sections[i][1])
        IN /\ section.user_input = <<" ">>
           /\ Len(OrEmpty(section.attached_files)) > 0
           /\ Len(OrEmpty(section.attached_urls)) > 0
           /\ processed_sections[i][2].status = "skipped"

\* C4: a batch whose model id is not in the catalog is rejected before any
\* section is processed: no attachment is resolved, no backend is invoked
\* and no (partial) BatchResult is produced.
C4_UnsupportedModelRejected ==
    request.model \notin SUPPORTED_MODELS =>
        /\ bpc \in {"received", "rejected"}
        /\ calls = <<>>
        /\ processed_sections = <<>>
        /\ response.kind \in {"none", "ValueError"}
        /\ bpc = "rejected" => response.kind = "ValueError"

C4_Witness ==
    /\ bpc = "rejected"
    /\ Len(request.sections) = 2
    /\ \A i \in 1..2 : ~IsBlank(request.sections[i][2].user_input)
    /\ TotalAttached(request.sections) > 0

\* C5: if generation fails for a section, that section's result has status
\* error, a diagnostic message as content and the submitted user_input; the
\* failure does not leave process_request, and every section of the batch
\* is present in the returned result.
C5_GenerationFailureIsSectionScoped ==
    /\ \A i \in 1..Len(calls) :
          (calls[i][1] \in GenerateOps /\ calls[i][3] = "fails") =>
              /\ DictHas(processed_sections, calls[i][2])
              /\ LET r == DictGet(processed_sections, calls[i][2])
                     section == DictGet(request.sections, calls[i][2])
                 IN /\ r.status = "error"
                    /\ r.generated_content = GenerationErrorContent
                    /\ r.user_input = section.user_input
              /\ bpc \in {"sections", "attachments", "generate", "responded"}
    /\ bpc = "responded" =>
          /\ response.kind = "ProposalResponse"
          /\ \A j \in 1..Len(request.sections) :
                DictHas(response.sections, request.sections[j][1])

C5_Witness ==
    /\ bpc = "responded"
    /\ Len(response.sections) = 2
    /\ GenerationFailed(request.sections[1][1])
    /\ response.sections[1][2].status = "error"
    /\ response.sections[2][2].status = "success"

-----------------------------------------------------------------------------
(* Properties of _process_attachments *)

\* the texts that stand for a failure inside a digest list
ErrorMarkerTexts ==
    {FileErrorMarker[1], UrlErrorMarker[1], "Fehler bei der Zusammenfassung"}

\* an attachment whose reading, fetching or summarizing failed
Failed(r) ==
    \/ r.cond \in {"raises", "unreadable", "error"}
    \/ SummarizerFailed(r.backend)

RECURSIVE Flatten(_)
Flatten(ss) == IF ss = <<>> THEN <<>> ELSE Head(ss) \o Flatten(Tail(ss))

\* the entry logged for the attachment at a position of its input list
ResolvedAt(kind, i) ==
    CHOOSE r \in Range(resolved) : r.kind = kind /\ r.index = i

\* the section whose attachments `resolved` belongs to has its result
LastDone ==
    /\ bpc \in {"sections", "responded"}
    /\ idx > 1
    /\ ~IsBlank(request.sections[idx - 1][2].user_input)

\* the isolation shared by C6 and its amended form: every attachment of the
\* section is processed, the list handed on holds exactly what each
\* attachment contributed, the LLM is invoked, and the section has status
\* error only when that invocation failed
AttachmentsIsolated ==
    /\ bpc = "generate" =>
          /\ Len(resolved) = NumAttached(CurSection)
          /\ attachment_summaries =
                Flatten([i \in 1..Len(resolved) |-> resolved[i].digest])
    /\ LastDone =>
          LET key == request.sections[idx - 1][1]
              section == request.sections[idx - 1][2]
              r == DictGet(processed_sections, key)
          IN /\ Len(resolved) = NumAttached(section)
             /\ GenerateCalls(key) # {}
             /\ r.status = IF GenerationFailed(key) THEN "error" ELSE "success"

\* C6 as stated: every failure while reading, fetching or summarizing an
\* attachment is converted to an inline error-marker digest, the other
\* attachments are still processed, the Generator is still invoked and the
\* section does not get status error from it.
C6_FailureBecomesMarker ==
    /\ \A i \in 1..Len(resolved) :
          Failed(resolved[i]) =>
              /\ resolved[i].digest # <<>>
              /\ resolved[i].digest[1][1] \in ErrorMarkerTexts
    /\ AttachmentsIsolated

\* C6 amended: a failure reported by the collaborator as empty content or as
\* status error is omitted from the digest list; an exception and a failed
\* summarization become an inline error marker; in every case the other
\* attachments are still processed, the Generator is still invoked and the
\* section does not get status error from it.
C6_FailureOmittedOrMarked ==
    /\ \A i \in 1..Len(resolved) :
          LET r == resolved[i] IN
          /\ r.cond \in {"unreadable", "error"} => r.digest = <<>>
          /\ (r.cond = "raises" \/ SummarizerFailed(r.backend)) =>
                /\ r.digest # <<>>
                /\ r.digest[1][1] \in ErrorMarkerTexts
    /\ AttachmentsIsolated

C6_Witness ==
    /\ LastDone
    /\ Len(resolved) = 3
    /\ resolved[1].cond = "raises"
    /\ resolved[2].backend = "fails"
    /\ resolved[3].cond = "error"
    /\ DictGet(processed_sections, request.sections[idx - 1][1]).status
          = "success"

\* C7: the digest list returned for a section is the surviving file
\* digests in input order followed by the surviving URL digests in input
\* order, each genuine summary being that of the attachment at its place.
C7_DigestsInInputOrder ==
    bpc = "generate" =>
        LET files == OrEmpty(CurSection.attached_files)
            urls == OrEmpty(CurSection.attached_urls)
            fd == [i \in 1..Len(files) |-> ResolvedAt("file", i).digest]
            ud == [i \in 1..Len(urls) |-> ResolvedAt("url", i).digest]
        IN /\ \A i \in 1..Len(files) :
                 \E r \in Range(resolved) : r.kind = "file" /\ r.index = i
           /\ \A i \in 1..Len(urls) :
                 \E r \in Range(resolved) : r.kind = "url" /\ r.index = i
           /\ attachment_summaries = Flatten(fd) \o Flatten(ud)
           /\ \A i \in 1..Len(files) :
                 (fd[i] # <<>> /\ fd[i][1][1] = "summary")
                     => fd[i][1][2] = files[i]
           /\ \A i \in 1..Len(urls) :
                 (ud[i] # <<>> /\ ud[i][1][1] = "summary")
                     => ud[i][1][2] = urls[i]

C7_Witness ==
    /\ bpc = "generate"
    /\ Len(OrEmpty(CurSection.attached_files)) = 2
    /\ Len(OrEmpty(CurSection.attached_urls)) = 1
    /\ attachment_summaries =
          <<<<"summary", OrEmpty(CurSection.attached_files)[1]>>,
            <<"summary", OrEmpty(CurSection.attached_files)[2]>>,
            <<"summary", OrEmpty(CurSection.attached_urls)[1]>>>>

-----------------------------------------------------------------------------
(* Properties of the maintenance loop *)

\* the periodic task begins a new asyncio.sleep in this step
SleepBegins ==
    /\ task'.pc = "sleeping"
    /\ task.pc # "sleeping" \/ task'.slept_at # task.slept_at

\* cleanup_old_files of the periodic task begins to work through a listing
BackgroundSweepBegins ==
    sweep["main"].phase # "running" /\ sweep'["main"].phase = "running"

\* C8: after the admin surface has accepted put-configuration, the running
\* loop uses the accepted interval for its next sleep and the accepted
\* retention for its next sweep; a sleep in progress is not shortened.
C8_LoopUsesAcceptedConfig ==
    [][ /\ SleepBegins =>
              task'.interval_used = config["router"].cleanup_interval_hours
        /\ BackgroundSweepBegins =>
              sweep'["main"].retention_hours
                  = config["router"].file_retention_hours
        /\ (task.pc = "sleeping" /\ config' # config) => task' = task
      ]_vars

\* C9: cancellation requested while the loop sleeps: the loop reaches
\* Cancelled, and no sweep of the loop starts after the request.
C9_CancelWhileSleeping ==
    /\ [][ (task.cancel_at = "sleeping" /\ task.pc # "cancelled") =>
              /\ task' = task \/ task'.pc = "cancelled"
              /\ sweep'["main"] = sweep["main"]
              /\ \A n \in Names :
                    store'[n] # store[n] => sweep["router"].phase = "running"
         ]_vars
    /\ (task.cancel_at = "sleeping") ~> (task.pc = "cancelled")

C9_Witness ==
    /\ task.cancel_at = "sleeping"
    /\ task.pc = "cancelled"
    /\ now >= WakeAt
    /\ \E n \in FileNames :
          /\ store[n].kind = "file"
          /\ store[n].mtime < now - config["main"].file_retention_hours

\* C10: cancellation requested during a sweep of the loop: every step
\* leaves each stored file whole or removes it, the sweep in progress goes
\* on entry by entry, no further sweep starts, and the loop reaches
\* Cancelled.
C10_CancelWhileSweeping ==
    /\ [][ \A n \in Names : store'[n] = store[n] \/ store'[n] = Absent ]_vars
    /\ [][ task.cancel_at = "sweeping" =>
              /\ task.pc = "sweeping" =>
                    \/ task' = task /\ sweep'["main"] = sweep["main"]
                    \/ /\ task'.pc = "sweeping"
                       /\ sweep'["main"].todo = Tail(sweep["main"].todo)
                    \/ /\ task'.pc = "sleeping"
                       /\ Len(sweep["main"].todo) = 1
                       /\ task'.must_cancel
              /\ task.pc = "sleeping" =>
                    /\ task' = task \/ task'.pc = "cancelled"
                    /\ sweep'["main"] = sweep["main"]
              /\ task.pc = "cancelled" => task' = task
         ]_vars
    /\ (task.cancel_at = "sweeping") ~> (task.pc = "cancelled")

C10_Witness ==
    /\ task.cancel_at = "sweeping"
    /\ task.pc = "cancelled"
    /\ \E n \in FileNames : store[n].kind = "absent"

-----------------------------------------------------------------------------
(* Properties of reads by id under concurrent removal *)

\* C11: a read of a file id that a sweep or an explicit delete removes
\* concurrently returns the file's complete content or the not-found
\* outcome, never empty or partial content.
C11_ReadCompleteOrNotFound ==
    reading.pc = "returned" =>
        reading.content \in {NoText, SomeText(TextOf(reading.file_id))}

-----------------------------------------------------------------------------
(* Properties of a sweep (cleanup_old_files) *)

\* this step is one entry of the sweep of instance i, and what the sweep
\* has counted stays visible after it
EntryStep(i) ==
    /\ sweep[i].phase = "running"
    /\ sweep'[i] # sweep[i]
    /\ sweep'[i].phase \in {"running", "returned"}

\* C12: a sweep deletes every non-directory entry whose age, now minus
\* last-modified time when the sweep starts, is at least retention_hours
\* (an age of exactly retention_hours included), unless the deletion
\* raises an I/O error.
C12_AgeAtLeastRetentionDeleted ==
    [][ \A i \in Instances :
          LET name == Head(sweep[i].todo)
              age == (sweep[i].cutoff_time + sweep[i].retention_hours)
                         - store[name].mtime
          IN ( /\ EntryStep(i)
               /\ store[name].kind = "file"
               /\ age >= sweep[i].retention_hours
               /\ sweep'[i].errors = sweep[i].errors )
             => store'[name] = Absent
      ]_vars

\* C13: a stored file is never mutated; it leaves the store only through
\* an explicit delete of its id or through a sweep at a time when it is
\* older than the retention of that sweep; a sub-directory never leaves.
C13_RemovedOnlyByDeleteOrExpiry ==
    [][ \A name \in Names :
          store'[name] # store[name] =>
              /\ store[name].kind = "file"
              /\ store'[name] = Absent
              /\ \/ \E file_id \in StoredIds :
                       GetFilePath(file_id) = name /\ DeleteFile(file_id)
                 \/ \E i \in Instances :
                       /\ SweepEntry(i)
                       /\ Head(sweep[i].todo) = name
                       /\ now - store[name].mtime > sweep[i].retention_hours
      ]_vars

C13_Witness ==
    /\ sweep["router"].phase = "returned"
    /\ sweep["router"].deleted_files = 1
    /\ sweep["router"].retention_hours = 24
    /\ store["a.pdf"] = Absent
    /\ store["b.pdf"].kind = "file"
    /\ now - store["b.pdf"].mtime < 24
    /\ store["sub"] = Dir

\* every entry step of a sweep is a step of RunEntries: it does to the
\* directory and to the counters what RunEntries does for that entry
SweepStepsFollowRunEntries ==
    [][ \A i \in Instances :
          EntryStep(i) =>
              \E fails \in SUBSET {Head(sweep[i].todo)} :
                  LET r == RunEntries(
                               [sweep[i] EXCEPT
                                   !.todo = <<Head(sweep[i].todo)>>],
                               store, fails)
                  IN /\ store' = r.store
                     /\ sweep'[i].deleted_files = r.stats.deleted_files
                     /\ sweep'[i].errors = r.stats.errors
                     /\ sweep'[i].total_size_freed
                           = r.stats.total_size_freed
      ]_vars

\* a sweep of the router's instance begun at st, at this clock reading and
\* with this configuration: every listing order, every set of failing
\* entries
SweepsFrom(st) ==
    {CleanupOldFiles(st, now, config["router"].file_retention_hours,
                     listing, fails) :
        listing \in Listings(st), fails \in SUBSET FileNames}

NoSweepRunning == \A i \in Instances : sweep[i].phase # "running"

C15_StatsExact ==
    [][ \A i \in Instances :
          /\ (sweep[i].phase # "running" /\ sweep'[i] # sweep[i]) =>
                /\ sweep'[i].deleted_files = 0
                /\ sweep'[i].total_size_freed = 0
                /\ store' = store
          /\ EntryStep(i) =>
                LET name == Head(sweep[i].todo)
                    removed == store[name].kind = "file"
                                   /\ store'[name] = Absent
                IN /\ \A other \in Names \ {name} :
                         store'[other] = store[other]
                   /\ ~removed => store'[name] = store[name]
                   /\ sweep'[i].deleted_files = sweep[i].deleted_files
                         + (IF removed THEN 1 ELSE 0)
                   /\ sweep'[i].total_size_freed = sweep[i].total_size_freed
                         + (IF removed THEN store[name].size ELSE 0)
      ]_vars

\* retention 24 h, one stored file modified 25 h ago
C15_Witness ==
    /\ sweep["router"].phase = "returned"
    /\ sweep["router"].retention_hours = 24
    /\ sweep["router"].deleted_files = 1
    /\ sweep["router"].total_size_freed = Size("b.pdf")
    /\ sweep["router"].errors = 0
    /\ store["a.pdf"] = Absent
    /\ store["b.pdf"] = Absent
    /\ now = 0

\* C16: an I/O failure on one entry adds one to errors and the sweep goes
\* on with the next entry: the entries after it are still worked through,
\* the expired ones among them are still deleted, and the sweep returns its
\* statistics.
C16_EntryErrorCountedSweepContinues ==
    [][ \A i \in Instances :
          LET name == Head(sweep[i].todo) IN
          /\ (sweep[i].phase = "running" /\ sweep'[i] # sweep[i]) =>
                IF Len(sweep[i].todo) > 1
                THEN /\ sweep'[i].phase = "running"
                     /\ sweep'[i].todo = Tail(sweep[i].todo)
                ELSE sweep'[i].phase = IF i = "router"
                                       THEN "returned" ELSE "idle"
          /\ EntryStep(i) =>
                /\ sweep'[i].errors \in
                      {sweep[i].errors, sweep[i].errors + 1}
                /\ sweep'[i].errors = sweep[i].errors + 1 =>
                      /\ store' = store
                      /\ sweep'[i].deleted_files = sweep[i].deleted_files
                /\ ( /\ sweep[i].errors > 0
                     /\ sweep'[i].errors = sweep[i].errors
                     /\ store[name].kind = "file"
                     /\ store[name].mtime < sweep[i].cutoff_time )
                   => /\ store'[name] = Absent
                      /\ sweep'[i].deleted_files
                            = sweep[i].deleted_files + 1
      ]_vars

C16_Witness ==
    /\ sweep["router"].phase = "returned"
    /\ sweep["router"].errors = 1
    /\ sweep["router"].deleted_files = 1
    /\ \E n \in FileNames :
          /\ store[n].kind = "file"
          /\ store[n].mtime < now - sweep["router"].retention_hours
    /\ \E n \in FileNames : store[n] = Absent

-----------------------------------------------------------------------------
(* Properties of put-configuration *)

\* a supplied value below its bound: retention_hours < 1 or
\* interval_hours < 0.1 (in tenths of an hour)
OutOfBounds(retention_hours, cleanup_interval_hours) ==
    \/ (~retention_hours.none) /\ retention_hours.val < 1
    \/ (~cleanup_interval_hours.none) /\ cleanup_interval_hours.val * 10 < 1

\* C17: put-configuration with retention_hours < 1 or interval_hours < 0.1
\* changes neither retention nor interval, also when only one of the two
\* values is out of bounds; after any sequence of calls the retention is
\* at least 1 and the interval at least 0.1.
C17_OutOfBoundsPutChangesNothing ==
    /\ [][ \A retention_hours \in PutValues,
              cleanup_interval_hours \in PutValues :
              ( /\ Serving
                /\ PutConfig(retention_hours, cleanup_interval_hours)
                /\ OutOfBounds(retention_hours, cleanup_interval_hours) )
              => config' = config
         ]_vars
    /\ [](\A i \in Instances :
             /\ config[i].file_retention_hours >= 1
             /\ config[i].cleanup_interval_hours * 10 >= 1)

\* both settings were changed by accepted calls; every further call is
\* still validated
C17_Witness ==
    /\ Serving
    /\ config["router"].file_retention_hours = 2
    /\ config["router"].cleanup_interval_hours = 2

-----------------------------------------------------------------------------
(* Properties of the loop under unexpected errors *)

\* C18: an unexpected error raised during a sweep cycle is logged and the
\* loop goes back to sleeping; the loop ends only through cancellation.
C18_LoopNeverFatal ==
    [][ /\ CycleRaises =>
              /\ task'.pc = "sleeping"
              /\ task'.slept_at = now
              /\ task'.logged_error
        /\ task.pc \in {"sleeping", "sweeping"} =>
              \/ task'.pc \in {"sleeping", "sweeping"}
              \/ task'.pc = "cancelled" /\ task.must_cancel
      ]_vars

\* the loop sweeps again after a cycle that failed
C18_Witness ==
    /\ task.logged_error
    /\ task.pc = "sweeping"
    /\ ~task.must_cancel


-----------------------------------------------------------------------------
(* Properties of the summarizer boundary and of the per-batch services *)

\* C19: summarize_for_questions never raises: a failure of the backend
\* invocation, and a failure to construct the backend client, come back as
\* the diagnostic string, which the enricher appends as an ordinary digest;
\* the remaining attachments are processed, the Generator is invoked and the
\* section gets status error only when generation itself failed.
C19_SummarizerFailureIsDiagnosticString ==
    /\ \A i \in 1..Len(resolved) :
          SummarizerFailed(resolved[i].backend) =>
              /\ resolved[i].digest = <<SummaryErrorText>>
              /\ resolved[i].cond # "raises"
    /\ AttachmentsIsolated

C19_Witness ==
    /\ LastDone
    /\ Len(resolved) >= 2
    /\ resolved[1].backend = "no_api_key"
    /\ resolved[2].backend = "fails"
    /\ resolved[1].digest = <<SummaryErrorText>>
    /\ DictGet(processed_sections, request.sections[idx - 1][1]).status
          = "success"

\* the model an operation's backend invocation is made with: the summarizer
\* is the SummarizationService() created once with its default model, the
\* generator is the LLMService(model_name=request.model) of the batch
ModelUsed(op) ==
    IF op = "summarize_for_questions" THEN SummarizerModel ELSE request.model

\* C20: every backend invocation made on behalf of a batch, for
\* summarization as well as for generation, uses the batch's model.
C20_EveryInvocationUsesBatchModel ==
    /\ \A i \in 1..Len(resolved) :
          resolved[i].backend \in {"ok", "fails"} =>
              ModelUsed("summarize_for_questions") = request.model
    /\ \A i \in 1..Len(calls) :
          calls[i][1] \in GenerateOps => ModelUsed(calls[i][1]) = request.model


-----------------------------------------------------------------------------
(* Properties of a sweep without upload directory *)

\* C21: when the upload directory does not exist, cleanup_old_files returns
\* deleted_files 0, errors 0 and total_size_freed 0 without raising (the
\* manual trigger gets exactly these statistics, the periodic task goes back
\* to its sleep with nothing logged as an error), and the call creates and
\* deletes nothing.
C21_MissingDirectoryZeroedStats ==
    [][ /\ (upload_dir = "missing" /\ TriggerCleanup) =>
              /\ sweep'["router"] = [IdleSweep EXCEPT !.phase = "returned"]
              /\ store' = store
              /\ upload_dir' = upload_dir
        /\ (upload_dir = "missing" /\ Wake) =>
              /\ sweep'["main"] = IdleSweep
              /\ task'.pc = "sleeping"
              /\ task'.logged_error = task.logged_error
              /\ store' = store
              /\ upload_dir' = upload_dir ]_vars

\* a manual sweep has returned the statistics of the missing directory
\* (every other return carries retention_hours >= 1), and the periodic task
\* has been through a sweep as well
C21_Witness ==
    /\ upload_dir = "missing"
    /\ sweep["router"] = [IdleSweep EXCEPT !.phase = "returned"]
    /\ task.pc = "sleeping"
    /\ task.slept_at > 0


-----------------------------------------------------------------------------
(* Properties of _process_section and of what the enricher omits *)

EnricherOps ==
    {"get_file_content", "extract_content_from_url", "summarize_for_questions"}

\* the collaborator invocations made on behalf of a section
CallsFor(key) == {i \in 1..Len(calls) : calls[i][2] = key}

\* C22: for a section whose user_input is blank no FileStore read, no
\* WebFetcher fetch, no Summarizer call and no Generator call is made,
\* whatever is attached to it.
C22_SkippedSectionMakesNoCalls ==
    \A j \in 1..Len(request.sections) :
        IsBlank(request.sections[j][2].user_input) =>
            CallsFor(request.sections[j][1]) = {}

C22_Witness ==
    /\ bpc = "responded"
    /\ Len(request.sections) = 2
    /\ IsBlank(request.sections[1][2].user_input)
    /\ request.sections[1][2].user_input # <<>>
    /\ NumAttached(request.sections[1][2]) = 2
    /\ response.sections[1][2].status = "skipped"
    /\ CallsFor(request.sections[2][1]) # {}

\* C23: the result of a skipped section has empty content and echoes the
\* submitted user_input.
C23_SkippedContentEmpty ==
    \A i \in 1..Len(processed_sections) :
        LET key == processed_sections[i][1]
            r == processed_sections[i][2]
        IN r.status = "skipped" =>
              /\ r.generated_content = <<>>
              /\ r.user_input = DictGet(request.sections, key).user_input

\* C24: for a section that is not skipped _process_attachments is entered
\* if and only if the section has at least one file id or URL; absent and
\* empty lists lead straight to generation.
C24_EnrichmentIffAttachments ==
    /\ bpc = "attachments" => NumAttached(CurSection) > 0
    /\ \A j \in 1..Len(request.sections) :
          LET key == request.sections[j][1]
              section == request.sections[j][2]
          IN (GenerateCalls(key) # {} \/ (bpc = "generate" /\ j = idx)) =>
                ( (\E i \in CallsFor(key) : calls[i][1] \in EnricherOps)
                  <=> NumAttached(section) > 0 )

\* both kinds of "no attachments" and a section with attachments went
\* through generation
C24_Witness ==
    /\ bpc = "responded"
    /\ Len(request.sections) = 2
    /\ request.sections[1][2].attached_files = Some(<<>>)
    /\ request.sections[1][2].attached_urls = NoneValue
    /\ GenerateCalls(request.sections[1][1]) # {}
    /\ NumAttached(request.sections[2][2]) > 0
    /\ GenerateCalls(request.sections[2][1]) # {}

\* the id of the attachment an entry of `resolved` stands for
AttachmentOf(section, r) ==
    IF r.kind = "file" THEN OrEmpty(section.attached_files)[r.index]
    ELSE OrEmpty(section.attached_urls)[r.index]

\* C25: a file whose read returns None or empty text, and a URL whose fetch
\* has a status other than success or empty content, contribute no digest
\* and no error marker, and summarize_for_questions is not called for them.
C25_NoContentIsOmitted ==
    bpc \in {"attachments", "generate"} =>
        \A i \in 1..Len(resolved) :
            LET r == resolved[i] IN
            r.cond \in {"missing", "unreadable", "error", "blank"} =>
                /\ r.digest = <<>>
                /\ r.backend = "none"
                /\ <<"summarize_for_questions", CurKey,
                     AttachmentOf(CurSection, r)>> \notin Range(calls)

C25_Witness ==
    /\ bpc = "generate"
    /\ Len(resolved) = 3
    /\ resolved[1].cond = "missing"
    /\ resolved[2].cond = "unreadable"
    /\ resolved[3].cond \in {"error", "blank"}
    /\ attachment_summaries = <<>>

\* C27: summarize_for_questions with empty or whitespace-only content
\* returns the fixed sentinel whatever the state of the backend and of its
\* client; the attachment's digest is the sentinel and no backend outcome is
\* involved.
C27_BlankContentGivesSentinel ==
    /\ \A content \in {<<>>, <<" ">>, <<" ", " ">>} :
          \A backend \in SummarizerOutcomes :
              SummarizeForQuestions(content, backend) = NoContentSentinel
    /\ \A i \in 1..Len(resolved) :
          resolved[i].cond = "whitespace" =>
              /\ resolved[i].digest = <<NoContentSentinel>>
              /\ resolved[i].backend = "none"

C27_Witness ==
    /\ bpc = "generate"
    /\ Len(resolved) = 2
    /\ resolved[1].cond = "whitespace"
    /\ resolved[1].digest = <<NoContentSentinel>>
    /\ resolved[2].backend = "no_api_key"


-----------------------------------------------------------------------------
(* Properties of the prompt handed to the backend *)

\* the blocks of a prompt with the heading of the attachment summaries
DetailBlocks(prompt) ==
    {k \in 1..Len(prompt) : prompt[k][1] = "Zusätzliche Details"}

\* C26: the human prompt sent for a section whose digest list is empty has
\* no "Zusätzliche Details" block at all; for a non-empty list it has exactly
\* one, placed between the user_input block and the examples block, listing
\* the digests in the order of the list.
C26_DetailsBlockIffDigests ==
    [][ Generate =>
          LET prompt == calls'[Len(calls')][4]
              digests == attachment_summaries
          IN /\ digests = <<>> => DetailBlocks(prompt) = {}
             /\ digests # <<>> =>
                   \E k \in 2..(Len(prompt) - 1) :
                      /\ DetailBlocks(prompt) = {k}
                      /\ prompt[k - 1] = <<"Benutzerinput",
                                          CurSection.user_input>>
                      /\ prompt[k + 1][1] = "Best-Practice-Beispiele"
                      /\ Len(prompt[k][2]) = Len(digests)
                      /\ \A j \in 1..Len(digests) :
                            /\ prompt[k][2][j][2] = j
                            /\ prompt[k][2][j][3] = digests[j] ]_vars

\* a prompt with two different digests in its block was sent after a prompt
\* without block for a section all of whose attachments were omitted
C26_Witness ==
    /\ bpc = "responded"
    /\ Len(calls) >= 2
    /\ \E i \in 1..(Len(calls) - 1) :
          /\ calls[i][1] = "generate_section_content"
          /\ DetailBlocks(calls[i][4]) = {}
          /\ NumAttached(DictGet(request.sections, calls[i][2])) > 0
    /\ calls[Len(calls)][1] = "generate_section_content_with_attachments"
    /\ Len(attachment_summaries) = 2
    /\ attachment_summaries[1] # attachment_summaries[2]
    /\ DetailBlocks(calls[Len(calls)][4]) = {4}


-----------------------------------------------------------------------------
(* Properties of the order of the pipeline *)

\* the reads and fetches made for a section
ResolveCalls(key) ==
    {i \in CallsFor(key) :
        calls[i][1] \in {"get_file_content", "extract_content_from_url"}}

\* C28: within a section that is not skipped every attachment is resolved
\* and summarized before the LLM is invoked, the LLM is invoked exactly once
\* and the section's result is written with its return; the response is
\* produced only when every section has its result.
C28_PipelineOrder ==
    /\ bpc = "generate" => Len(resolved) = NumAttached(CurSection)
    /\ \A j \in 1..Len(request.sections) :
          LET key == request.sections[j][1]
              section == request.sections[j][2]
          IN /\ Cardinality(GenerateCalls(key)) <= 1
             /\ \A g \in GenerateCalls(key) :
                   /\ \A i \in CallsFor(key) : i <= g
                   /\ Cardinality(ResolveCalls(key)) = NumAttached(section)
                   /\ DictHas(processed_sections, key)
             /\ (DictHas(processed_sections, key)
                   /\ ~IsBlank(section.user_input)) =>
                   Cardinality(GenerateCalls(key)) = 1
    /\ response.kind = "ProposalResponse" =>
          /\ bpc = "responded"
          /\ \A j \in 1..Len(request.sections) :
                DictHas(response.sections, request.sections[j][1])

C28_Witness ==
    /\ bpc = "responded"
    /\ Len(request.sections) = 2
    /\ NumAttached(request.sections[1][2]) = 2
    /\ NumAttached(request.sections[2][2]) = 1
    /\ Cardinality(GenerateCalls(request.sections[1][1])) = 1
    /\ Cardinality(GenerateCalls(request.sections[2][1])) = 1
    /\ \E i \in 1..Len(calls) : calls[i][1] = "summarize_for_questions"


-----------------------------------------------------------------------------
(* Properties of the order of the periodic task *)

\* C29: the periodic task sleeps first: a sweep of the background instance
\* begins only from a sleep that has lasted the instance's
\* cleanup_interval_hours, and when a sweep is over (returned or raised)
\* the task is in a fresh sleep begun at that moment; so there is no sweep
\* at startup and there are no two sweeps without a sleep between them.
C29_SleepBeforeEverySweep ==
    [][ /\ (task.pc = "created" /\ task'.pc # "created") =>
              /\ task'.pc = "sleeping"
              /\ task'.slept_at = now
              /\ sweep' = sweep
        /\ ( \/ (sweep["main"].phase # "running"
                   /\ sweep'["main"].phase = "running")
             \/ Wake ) =>
              /\ task.pc = "sleeping"
              /\ now >= task.slept_at + config["main"].cleanup_interval_hours
              /\ config["main"].cleanup_interval_hours >= 1
        /\ (task.pc = "sweeping" /\ task'.pc # "sweeping") =>
              /\ task'.pc = "sleeping"
              /\ task'.slept_at = now
              /\ sweep'["main"].phase # "running"
        /\ sweep["main"].phase = "running" => task.pc = "sweeping" ]_vars

\* a second background sweep runs, one interval after the first one ended
C29_Witness ==
    /\ task.pc = "sweeping"
    /\ task.logged_error
    /\ task.slept_at = 1
    /\ now = 2


-----------------------------------------------------------------------------
(* Properties of two sweeps over the same directory *)

RECURSIVE SizeOf(_)
SizeOf(S) ==
    IF S = {} THEN 0
    ELSE LET n == CHOOSE n \in S : TRUE IN Size(n) + SizeOf(S \ {n})

\* the files that are not in the directory
GoneFiles == {n \in FileNames : store[n].kind = "absent"}

\* what the sweep of each instance has counted is accounted for by files
\* that are gone, no file standing for both sweeps
CountedApart ==
    \E byMain \in SUBSET GoneFiles :
       \E byRouter \in SUBSET (GoneFiles \ byMain) :
          /\ sweep["main"].deleted_files = Cardinality(byMain)
          /\ sweep["main"].total_size_freed = SizeOf(byMain)
          /\ sweep["router"].deleted_files = Cardinality(byRouter)
          /\ sweep["router"].total_size_freed = SizeOf(byRouter)

\* C30: while the sweep of the periodic task and a manually triggered sweep
\* go over the same directory, a removed file is in the deleted_files of at
\* most one of them and their total_size_freed add up to the sizes of the
\* files they removed: the entry step that removes a file changes the
\* counters of its own sweep only, and the other sweep meets OSError there.
C30_ConcurrentSweepsCountApart ==
    /\ []CountedApart
    /\ [][ \A i \in Instances :
             SweepEntry(i) =>
                /\ \A o \in Instances \ {i} : sweep'[o] = sweep[o]
                /\ \A n \in FileNames :
                      (store[n].kind = "file" /\ store'[n].kind = "absent") =>
                          n = Head(sweep[i].todo)
       ]_vars

\* both sweeps are under way, each has removed one of the two expired files
\* and has met OSError on the file the other one removed
C30_Witness ==
    /\ sweep["main"].phase = "running"
    /\ sweep["router"].phase = "running"
    /\ sweep["main"].deleted_files = 1
    /\ sweep["router"].deleted_files = 1
    /\ sweep["main"].errors = 1
    /\ sweep["router"].errors = 1
    /\ sweep["main"].total_size_freed + sweep["router"].total_size_freed
          = Size("a.pdf") + Size("b.pdf")

====
